---- MODULE Spec2Model ----
(***************************************************************************)
(* Patch extraction and batching of VSR/DataLoader/Loader.py.              *)
(*                                                                         *)
(* Loader turns a collection of media files into a lazy sequence of        *)
(* (high-res, low-res) crop pairs, either by walking a grid                *)
(* (_build_iter) or by drawing random origins up to a quota                *)
(* (_build_random_iter).  BatchLoader pulls that sequence and stacks the   *)
(* pairs into batches.                                                     *)
(*                                                                         *)
(* The two generators are modelled statement by statement: gpc is the      *)
(* position of the generator, and the generator only runs while the        *)
(* consumer (BatchLoader._load_batch) is blocked in its for loop.          *)
(* Images are modelled by their sizes and crop boxes; pixel contents play  *)
(* no part in the control flow.                                            *)
(***************************************************************************)
EXTENDS Integers, Sequences, FiniteSets, TLC

(***************************************************************************)
(* Bounds of the model: files in the dataset, frames in a file,            *)
(* max_patches, batch size, and the values at which the counters of        *)
(* StopIteration signals and of passes stop counting.                      *)
(***************************************************************************)
MaxFiles == 2
MaxFrames == 2
MaxPatches == 3
MaxBatch == 2
MaxStops == 2
MaxPasses == 2

\* frame widths and heights, (scale_x, scale_y) pairs, raw patch sizes and
\* strides of the dataset descriptor, frames per group
Widths == {2, 3, 4}
Heights == {2, 3}
Scales == {<<1, 1>>, <<2, 2>>, <<2, 1>>}
PatchSizes == {2, 3}
StrideSizes == {1, 2}
Depths == {1, 2}

\* Python's None; both None and the empty list are falsy in `x or y`
None == <<>>
NoPair == [box |-> <<>>, box_lr |-> <<>>, size |-> <<>>, file |-> 0]

Min(a, b) == IF a < b THEN a ELSE b

(***************************************************************************)
(* Collaborators outside Loader.py.                                        *)
(***************************************************************************)
\* Utility.to_list(x, n): a sequence of length n stays, a shorter one is
\* repeated from its first element
to_list(x, n) == IF Len(x) = n THEN x ELSE [i \in 1..n |-> x[1]]

\* Utility.shrink_mod_scale(x, scale): largest value <= x divisible by scale
shrink_mod_scale(x, s) == [i \in 1..Len(x) |-> x[i] - (x[i] % s[i])]

\* ImageProcess.shrink_to_multiple_scale(img, scale), on the image size
shrink_to_multiple_scale(size, s) == [i \in 1..2 |-> size[i] - (size[i] % s[i])]

\* a media file handle as Loader.__init__ creates it (RawFile / ImageFile):
\* shape, number of frames in the file, frames left to read
VirtualFile(shape, n) == [shape |-> shape, size |-> n, frames |-> n]

\* vf.read_frame(n): advances the read cursor by n frames
read_frame(vf, n) == [vf EXCEPT !.frames = vf.frames - n]

\* vf.reopen(): back to the first frame
reopen(vf) == [vf EXCEPT !.frames = vf.size]

VARIABLES
    dataset, length, scale, patch_size, strides, depth, loop, random,
    max_patches, built,
    gpc, fi, ngroups, gi, width, height, w, h,
    patch_counter, patch_per_file, di, pair, err,
    batch, bpc, acc, batches, last,
    nYield, nStop, visits, passes,
    method, dataset_random, lenSeen, order, ret

cfg == <<length, scale, depth, loop, random, max_patches,
         method, dataset_random>>
obs == <<lenSeen, order, ret>>
gen == <<gpc, fi, ngroups, gi, width, height, w, h,
         patch_counter, patch_per_file, di, pair, err>>
hist == <<nYield, visits, passes>>
vars == <<dataset, cfg, obs, patch_size, strides, built, gen,
          batch, bpc, acc, batches, last, nStop, hist>>

(***************************************************************************)
(* Loader.__init__: the state after construction.  The files of a dataset  *)
(* share the frame shape (dataset.width, dataset.height) and differ in     *)
(* their frame counts, each holding at least one frame.  patch_size and    *)
(* strides are the scalars of the dataset descriptor, held here as         *)
(* one-element sequences.  A parameter the chosen mode never reads is      *)
(* fixed: strides and loop in random mode, max_patches in deterministic    *)
(* mode.  The stride is at least the scale, so that the normalized stride  *)
(* is positive.                                                            *)
(***************************************************************************)
\* the method names a caller passes; str.lower() of each
Methods == {"train", "val", "test", "Test"}
lower(m) == IF m = "Test" THEN "test" ELSE m

\* self.random = dataset.random and not (method == 'test')
RandomMode(m, dr) == dr /\ ~(m = "test")

\* the construction for methods, frame shapes and scales of the given sets
InitOf(methods, shapes, scales) ==
    /\ method \in methods
    /\ dataset_random \in BOOLEAN
    /\ random = RandomMode(method, dataset_random)
    /\ \E n \in 0..MaxFiles, shape \in shapes :
         \E fr \in [1..n -> 1..MaxFrames] :
            dataset = [i \in 1..n |-> VirtualFile(shape, fr[i])]
    /\ length = Len(dataset)
    /\ scale \in scales
    /\ patch_size \in {<<p>> : p \in PatchSizes}
    /\ depth \in Depths
    /\ IF random
         THEN /\ strides = patch_size
              /\ loop = FALSE
              /\ max_patches \in 0..MaxPatches
         ELSE /\ strides \in {<<s>> : s \in StrideSizes}
              /\ loop \in BOOLEAN
              /\ strides[1] >= scale[1] /\ strides[1] >= scale[2]
              /\ max_patches = MaxPatches
    /\ built = FALSE
    /\ gpc = "none"
    /\ fi = 0 /\ ngroups = 0 /\ gi = 0
    /\ width = 0 /\ height = 0 /\ w = 0 /\ h = 0
    /\ patch_counter = 0 /\ patch_per_file = 0 /\ di = 0
    /\ pair = NoPair
    /\ err = "none"
    /\ batch = 0
    /\ bpc = "idle"
    /\ acc = <<>>
    /\ batches = <<>>
    /\ last = "none"
    /\ nYield = 0 /\ nStop = 0
    /\ visits = [i \in 1..Len(dataset) |-> 0]
    /\ passes = 0
    /\ lenSeen = <<>>
    /\ order = <<>>
    /\ ret = NoPair

\* a loader of the training method, randomization set or not
Init == InitOf({"train"}, Widths \X Heights, Scales)

(***************************************************************************)
(* Loader.__next__ and Loader.__iter__ before build_loader.                *)
(***************************************************************************)
\* __next__ that returns instead of raising when the loader is not built
LoaderNext_NoRaise ==
    /\ ~built
    /\ last' = "returned"
    /\ UNCHANGED <<dataset, cfg, obs, patch_size, strides, built, gen,
                   batch, bpc, acc, batches, nStop, hist>>

\* __next__: the guard of line 50 raises RuntimeError
LoaderNextUnbuilt ==
    /\ ~built
    /\ last' = "RuntimeError"
    /\ UNCHANGED <<dataset, cfg, obs, patch_size, strides, built, gen,
                   batch, bpc, acc, batches, nStop, hist>>

\* __iter__ returns batch_iterator, which is None: iter() raises TypeError
LoaderIterUnbuilt ==
    /\ gpc = "none"
    /\ last' = "TypeError"
    /\ UNCHANGED <<dataset, cfg, obs, patch_size, strides, built, gen,
                   batch, bpc, acc, batches, nStop, hist>>

(***************************************************************************)
(* Loader.build_loader(crop) with no overriding keyword argument.          *)
(***************************************************************************)
build_loader(crop) ==
    LET sc == to_list(scale, 2)
    IN  /\ scale' = sc
        /\ patch_size' = IF crop THEN shrink_mod_scale(to_list(patch_size, 2), sc)
                                 ELSE None
        /\ strides' = IF crop THEN shrink_mod_scale(to_list(strides, 2), sc)
                              ELSE None
        /\ gpc' = "start"
        /\ built' = TRUE

\* BatchLoader.__init__ after it has constructed its Loader
BatchLoaderInit ==
    /\ ~built
    /\ \E crop \in BOOLEAN : build_loader(crop)
    /\ batch' \in 1..MaxBatch
    /\ last' = "none"
    /\ UNCHANGED <<dataset, length, depth, loop, random, max_patches,
                   method, dataset_random, obs,
                   fi, ngroups, gi, width, height, w, h,
                   patch_counter, patch_per_file, di, pair, err,
                   bpc, acc, batches, nStop, hist>>

(***************************************************************************)
(* Loader._build_iter: the deterministic generator.  It runs only while    *)
(* the consumer waits for its next element.                                *)
(***************************************************************************)
Pulling == bpc = "loading"

\* passes and visits count up to MaxPasses and stay there, so that a
\* looping generator keeps running in a finite state space
Sat(n) == Min(n + 1, MaxPasses)

\* strides = self.strides or [width, height]
Strides == IF strides # None THEN strides ELSE <<width, height>>

\* patch_size = self.patch_size or [width, height]
PatchSize == IF patch_size # None THEN patch_size ELSE <<width, height>>

\* box = [x, y, x + patch_size[0], y + patch_size[1]]
Box(x, y) == <<x, y, x + PatchSize[1], y + PatchSize[2]>>

\* the division with the scale list repeated element by element
BoxLr_Swapped(box) ==
    <<box[1] \div scale[1], box[2] \div scale[1],
      box[3] \div scale[2], box[4] \div scale[2]>>

\* box // [*self.scale, *self.scale]
BoxLr(box) ==
    <<box[1] \div scale[1], box[2] \div scale[2],
      box[3] \div scale[1], box[4] \div scale[2]>>

\* the pair yielded for the crop origin (x, y) of the current frame group
Crop(x, y) ==
    [box |-> Box(x, y), box_lr |-> BoxLr(Box(x, y)),
     size |-> <<width, height>>, file |-> fi]

\* while True: for vf in self.dataset (first entry)
IterStart ==
    /\ Pulling /\ ~random /\ gpc = "start"
    /\ gpc' = "file"
    /\ fi' = 1
    /\ passes' = Sat(passes)
    /\ UNCHANGED <<dataset, cfg, obs, patch_size, strides, built,
                   ngroups, gi, width, height, w, h,
                   patch_counter, patch_per_file, di, pair, err,
                   batch, bpc, acc, batches, last, nStop, nYield, visits>>

\* for vf in self.dataset: for _ in range(vf.frames // self.depth)
IterFile ==
    /\ Pulling /\ ~random /\ gpc = "file"
    /\ fi <= Len(dataset)
    /\ ngroups' = dataset[fi].frames \div depth
    /\ gi' = 0
    /\ gpc' = "group"
    /\ visits' = [visits EXCEPT ![fi] = Sat(@)]
    /\ UNCHANGED <<dataset, cfg, obs, patch_size, strides, built,
                   fi, width, height, w, h,
                   patch_counter, patch_per_file, di, pair, err,
                   batch, bpc, acc, batches, last, nStop, nYield, passes>>

\* a break that does not read self.loop
Break_Always == TRUE

\* if not self.loop: break
Break == ~loop

\* the files are exhausted and loop is not set: the generator returns
IterBreak ==
    /\ Pulling /\ ~random /\ gpc = "file"
    /\ fi > Len(dataset)
    /\ Break
    /\ gpc' = "done"
    /\ UNCHANGED <<dataset, cfg, obs, patch_size, strides, built,
                   fi, ngroups, gi, width, height, w, h,
                   patch_counter, patch_per_file, di, pair, err,
                   batch, bpc, acc, batches, last, nStop, hist>>

\* the files are exhausted and loop is set: while True starts the next pass
IterLoop ==
    /\ Pulling /\ ~random /\ gpc = "file"
    /\ fi > Len(dataset)
    /\ ~Break
    /\ fi' = 1
    /\ passes' = Sat(passes)
    /\ UNCHANGED <<dataset, cfg, obs, patch_size, strides, built,
                   gpc, ngroups, gi, width, height, w, h,
                   patch_counter, patch_per_file, di, pair, err,
                   batch, bpc, acc, batches, last, nStop, nYield, visits>>

\* one more frame group: read depth frames, shrink them to a multiple of
\* the scale, take width and height, enter the grid at w = 0
IterGroup ==
    /\ Pulling /\ ~random /\ gpc = "group"
    /\ gi < ngroups
    /\ dataset' = [dataset EXCEPT ![fi] = read_frame(@, depth)]
    /\ LET size == shrink_to_multiple_scale(dataset[fi].shape, scale)
       IN  width' = size[1] /\ height' = size[2]
    /\ w' = 0
    /\ gpc' = "col"
    /\ UNCHANGED <<cfg, obs, patch_size, strides, built,
                   fi, ngroups, gi, h,
                   patch_counter, patch_per_file, di, pair, err,
                   batch, bpc, acc, batches, last, nStop, hist>>

\* the next file without reading the frames left in this one
IterDrain_NoDrain ==
    /\ Pulling /\ ~random /\ gpc = "group"
    /\ gi >= ngroups
    /\ fi' = fi + 1
    /\ gpc' = "file"
    /\ UNCHANGED <<dataset, cfg, obs, patch_size, strides, built,
                   ngroups, gi, width, height, w, h,
                   patch_counter, patch_per_file, di, pair, err,
                   batch, bpc, acc, batches, last, nStop, hist>>

\* the groups of the file are exhausted: vf.read_frame(vf.frames), next file
IterDrain ==
    /\ Pulling /\ ~random /\ gpc = "group"
    /\ gi >= ngroups
    /\ dataset' = [dataset EXCEPT ![fi] = read_frame(@, @.frames)]
    /\ fi' = fi + 1
    /\ gpc' = "file"
    /\ UNCHANGED <<cfg, obs, patch_size, strides, built,
                   ngroups, gi, width, height, w, h,
                   patch_counter, patch_per_file, di, pair, err,
                   batch, bpc, acc, batches, last, nStop, hist>>

\* a column whose rows start one stride below the top edge
IterCol_FromStride ==
    /\ Pulling /\ ~random /\ gpc = "col"
    /\ w < width
    /\ h' = Strides[2]
    /\ gpc' = "row"
    /\ UNCHANGED <<dataset, cfg, obs, patch_size, strides, built,
                   fi, ngroups, gi, width, height, w,
                   patch_counter, patch_per_file, di, pair, err,
                   batch, bpc, acc, batches, last, nStop, hist>>

\* for w in range(0, width, strides[0]): a column of the grid starts
IterCol ==
    /\ Pulling /\ ~random /\ gpc = "col"
    /\ w < width
    /\ h' = 0
    /\ gpc' = "row"
    /\ UNCHANGED <<dataset, cfg, obs, patch_size, strides, built,
                   fi, ngroups, gi, width, height, w,
                   patch_counter, patch_per_file, di, pair, err,
                   batch, bpc, acc, batches, last, nStop, hist>>

\* range(0, width, strides[0]) is exhausted: the next frame group
IterGroupEnd ==
    /\ Pulling /\ ~random /\ gpc = "col"
    /\ w >= width
    /\ gi' = gi + 1
    /\ gpc' = "group"
    /\ UNCHANGED <<dataset, cfg, obs, patch_size, strides, built,
                   fi, ngroups, width, height, w, h,
                   patch_counter, patch_per_file, di, pair, err,
                   batch, bpc, acc, batches, last, nStop, hist>>

\* the edge test that also rejects a cell ending exactly on the edge
PastEdge_Inclusive(x, y) ==
    x + PatchSize[1] >= width \/ y + PatchSize[2] >= height

\* the edge test without its bottom half
PastEdge_RightOnly(x, y) == x + PatchSize[1] > width

\* if w + patch_size[0] > width or h + patch_size[1] > height
PastEdge(x, y) == x + PatchSize[1] > width \/ y + PatchSize[2] > height

\* a cell that passes the right or bottom edge: continue
IterSkip ==
    /\ Pulling /\ ~random /\ gpc = "row"
    /\ h < height
    /\ PastEdge(w, h)
    /\ h' = h + Strides[2]
    /\ UNCHANGED <<dataset, cfg, obs, patch_size, strides, built,
                   gpc, fi, ngroups, gi, width, height, w,
                   patch_counter, patch_per_file, di, pair, err,
                   batch, bpc, acc, batches, last, nStop, hist>>

\* a cell inside the frame: crop both groups and yield
IterYield ==
    /\ Pulling /\ ~random /\ gpc = "row"
    /\ h < height
    /\ ~PastEdge(w, h)
    /\ pair' = Crop(w, h)
    /\ nYield' = nYield + 1
    /\ order' = Append(order, <<fi, gi, w, h>>)
    /\ gpc' = "yield"
    /\ UNCHANGED <<dataset, cfg, lenSeen, ret, patch_size, strides, built,
                   fi, ngroups, gi, width, height, w, h,
                   patch_counter, patch_per_file, di, err,
                   batch, bpc, acc, batches, last, nStop, visits, passes>>

\* range(0, height, strides[1]) is exhausted: the next column
IterRowEnd ==
    /\ Pulling /\ ~random /\ gpc = "row"
    /\ h >= height
    /\ w' = w + Strides[1]
    /\ gpc' = "col"
    /\ UNCHANGED <<dataset, cfg, obs, patch_size, strides, built,
                   fi, ngroups, gi, width, height, h,
                   patch_counter, patch_per_file, di, pair, err,
                   batch, bpc, acc, batches, last, nStop, hist>>

(***************************************************************************)
(* Loader._build_random_iter: the random generator.                        *)
(***************************************************************************)
\* the quota without the rounding up
PatchPerFile_Floor == max_patches \div length

\* patch_per_file = max_patches // length, plus 1 when the true quotient
\* max_patches / length is not that integer
PatchPerFile ==
    LET q == max_patches \div length
    IN  IF q * length # max_patches THEN q + 1 ELSE q

\* patch_counter = 0, the per-file quota, the first file
RandomStart ==
    /\ Pulling /\ random /\ gpc = "start"
    /\ length # 0
    /\ patch_counter' = 0
    /\ patch_per_file' = PatchPerFile
    /\ fi' = 1
    /\ gpc' = "file"
    /\ UNCHANGED <<dataset, cfg, obs, patch_size, strides, built,
                   ngroups, gi, width, height, w, h, di, pair, err,
                   batch, bpc, acc, batches, last, nStop, hist>>

\* self.max_patches // self.length with no file: ZeroDivisionError
RandomNoFile ==
    /\ Pulling /\ random /\ gpc = "start"
    /\ length = 0
    /\ gpc' = "raise"
    /\ err' = "ZeroDivisionError"
    /\ UNCHANGED <<dataset, cfg, obs, patch_size, strides, built,
                   fi, ngroups, gi, width, height, w, h,
                   patch_counter, patch_per_file, di, pair,
                   batch, bpc, acc, batches, last, nStop, hist>>

\* for vf in self.dataset: reopen a drained handle, count its groups
RandomFile ==
    /\ Pulling /\ random /\ gpc = "file"
    /\ fi <= Len(dataset)
    /\ LET vf == IF dataset[fi].frames = 0 THEN reopen(dataset[fi])
                                           ELSE dataset[fi]
       IN  /\ dataset' = [dataset EXCEPT ![fi] = vf]
           /\ ngroups' = vf.frames \div depth
    /\ gi' = 0
    /\ gpc' = "group"
    /\ visits' = [visits EXCEPT ![fi] = Sat(@)]
    /\ UNCHANGED <<cfg, obs, patch_size, strides, built,
                   fi, width, height, w, h,
                   patch_counter, patch_per_file, di, pair, err,
                   batch, bpc, acc, batches, last, nStop, nYield, passes>>

\* the files are exhausted: the generator returns
RandomEnd ==
    /\ Pulling /\ random /\ gpc = "file"
    /\ fi > Len(dataset)
    /\ gpc' = "done"
    /\ UNCHANGED <<dataset, cfg, obs, patch_size, strides, built,
                   fi, ngroups, gi, width, height, w, h,
                   patch_counter, patch_per_file, di, pair, err,
                   batch, bpc, acc, batches, last, nStop, hist>>

\* one more frame group: read depth frames, shrink, take width and height
RandomGroup ==
    /\ Pulling /\ random /\ gpc = "group"
    /\ gi < ngroups
    /\ dataset' = [dataset EXCEPT ![fi] = read_frame(@, depth)]
    /\ LET size == shrink_to_multiple_scale(dataset[fi].shape, scale)
       IN  width' = size[1] /\ height' = size[2]
    /\ di' = 0
    /\ gpc' = "draw"
    /\ UNCHANGED <<cfg, obs, patch_size, strides, built,
                   fi, ngroups, gi, w, h,
                   patch_counter, patch_per_file, pair, err,
                   batch, bpc, acc, batches, last, nStop, hist>>

\* the groups of the file are exhausted: the next file, without draining
RandomNextFile ==
    /\ Pulling /\ random /\ gpc = "group"
    /\ gi >= ngroups
    /\ fi' = fi + 1
    /\ gpc' = "file"
    /\ UNCHANGED <<dataset, cfg, obs, patch_size, strides, built,
                   ngroups, gi, width, height, w, h,
                   patch_counter, patch_per_file, di, pair, err,
                   batch, bpc, acc, batches, last, nStop, hist>>

\* range(patch_per_file) is exhausted: the next frame group
RandomGroupEnd ==
    /\ Pulling /\ random /\ gpc = "draw"
    /\ di >= patch_per_file
    /\ gi' = gi + 1
    /\ gpc' = "group"
    /\ UNCHANGED <<dataset, cfg, obs, patch_size, strides, built,
                   fi, ngroups, width, height, w, h,
                   patch_counter, patch_per_file, di, pair, err,
                   batch, bpc, acc, batches, last, nStop, hist>>

\* the quota test passing one patch too late
QuotaReached_Late == patch_counter > max_patches

\* if patch_counter >= self.max_patches
QuotaReached == patch_counter >= max_patches

\* the quota is reached: raise StopIteration().  Raised
\* inside a generator, StopIteration either ends the generator (Python
\* before 3.7) or is turned into RuntimeError (PEP 479, Python 3.7 on).
RandomQuota ==
    /\ Pulling /\ random /\ gpc = "draw"
    /\ di < patch_per_file
    /\ QuotaReached
    /\ \E generator_stop \in BOOLEAN :
         IF generator_stop
           THEN gpc' = "raise" /\ err' = "RuntimeError"
           ELSE gpc' = "done" /\ err' = "StopIteration"
    /\ UNCHANGED <<dataset, cfg, obs, patch_size, strides, built,
                   fi, ngroups, gi, width, height, w, h,
                   patch_counter, patch_per_file, di, pair,
                   batch, bpc, acc, batches, last, nStop, hist>>

\* np.random.randint(0, high) raises ValueError unless high > 0
EmptyRange == width - PatchSize[1] + 1 <= 0 \/ height - PatchSize[2] + 1 <= 0

\* an empty randint range that ends the generator without an error
RandomRangeError_Silent ==
    /\ Pulling /\ random /\ gpc = "draw"
    /\ di < patch_per_file
    /\ ~QuotaReached
    /\ EmptyRange
    /\ gpc' = "done"
    /\ UNCHANGED <<dataset, cfg, obs, patch_size, strides, built,
                   fi, ngroups, gi, width, height, w, h,
                   patch_counter, patch_per_file, di, pair, err,
                   batch, bpc, acc, batches, last, nStop, hist>>

\* the patch is larger than the frame: randint raises ValueError
RandomRangeError ==
    /\ Pulling /\ random /\ gpc = "draw"
    /\ di < patch_per_file
    /\ ~QuotaReached
    /\ EmptyRange
    /\ gpc' = "raise"
    /\ err' = "ValueError"
    /\ UNCHANGED <<dataset, cfg, obs, patch_size, strides, built,
                   fi, ngroups, gi, width, height, w, h,
                   patch_counter, patch_per_file, di, pair,
                   batch, bpc, acc, batches, last, nStop, hist>>

\* draw the origin, crop both groups, count the patch and yield
RandomYield ==
    /\ Pulling /\ random /\ gpc = "draw"
    /\ di < patch_per_file
    /\ ~QuotaReached
    /\ ~EmptyRange
    /\ \E x \in 0..(width - PatchSize[1]), y \in 0..(height - PatchSize[2]) :
         pair' = Crop(x, y)
    /\ patch_counter' = patch_counter + 1
    /\ nYield' = nYield + 1
    /\ gpc' = "yield"
    /\ UNCHANGED <<dataset, cfg, obs, patch_size, strides, built,
                   fi, ngroups, gi, width, height, w, h,
                   patch_per_file, di, err,
                   batch, bpc, acc, batches, last, nStop, visits, passes>>

(***************************************************************************)
(* BatchLoader.__next__ and BatchLoader._load_batch.                       *)
(***************************************************************************)
\* next() on a generator suspended at its yield: the for loop that holds
\* the yield takes its next value (h in _build_iter, the draw index in
\* _build_random_iter)
Resume ==
    IF random
      THEN gpc' = "draw" /\ di' = di + 1 /\ h' = h
      ELSE gpc' = "row" /\ h' = h + Strides[2] /\ di' = di

\* __next__ calls _load_batch: empty lists, then the for loop asks the
\* generator for an element
BatchNext ==
    /\ built /\ bpc = "idle"
    /\ bpc' = "loading"
    /\ acc' = <<>>
    /\ IF gpc = "suspended" THEN Resume ELSE UNCHANGED <<gpc, di, h>>
    /\ UNCHANGED <<dataset, cfg, obs, patch_size, strides, built,
                   fi, ngroups, gi, width, height, w,
                   patch_counter, patch_per_file, pair, err,
                   batch, batches, last, nStop, hist>>

\* the loop body with fewer than batch pairs accumulated: append, go on
LoadBatchAppend ==
    /\ Pulling /\ gpc = "yield"
    /\ Len(acc) + 1 # batch
    /\ acc' = Append(acc, nYield)
    /\ pair' = NoPair
    /\ Resume
    /\ UNCHANGED <<dataset, cfg, obs, patch_size, strides, built,
                   fi, ngroups, gi, width, height, w,
                   patch_counter, patch_per_file, err,
                   batch, bpc, batches, last, nStop, hist>>

\* the loop body completing a batch: _load_batch returns the stacks and
\* __next__ returns them; the generator stays suspended at its yield
LoadBatchFull ==
    /\ Pulling /\ gpc = "yield"
    /\ Len(acc) + 1 = batch
    /\ batches' = Append(batches, Append(acc, nYield))
    /\ acc' = <<>>
    /\ pair' = NoPair
    /\ gpc' = "suspended"
    /\ bpc' = "idle"
    /\ last' = "batch"
    /\ UNCHANGED <<dataset, cfg, obs, patch_size, strides, built,
                   fi, ngroups, gi, width, height, w, h,
                   patch_counter, patch_per_file, di, err,
                   batch, nStop, hist>>

\* the generator is exhausted with pairs accumulated: the shorter batch
LoadBatchPartial ==
    /\ Pulling /\ gpc = "done"
    /\ acc # <<>>
    /\ batches' = Append(batches, acc)
    /\ acc' = <<>>
    /\ bpc' = "idle"
    /\ last' = "batch"
    /\ UNCHANGED <<dataset, cfg, obs, patch_size, strides, built, gen,
                   batch, nStop, hist>>

\* the generator is exhausted with nothing accumulated: _load_batch
\* returns [], [] and __next__ raises StopIteration
LoadBatchEmpty ==
    /\ Pulling /\ gpc = "done"
    /\ acc = <<>>
    /\ bpc' = "idle"
    /\ last' = "StopIteration"
    /\ nStop' = Min(nStop + 1, MaxStops)
    /\ UNCHANGED <<dataset, cfg, obs, patch_size, strides, built, gen,
                   batch, acc, batches, hist>>

\* an exception leaves the generator: it passes through _load_batch and
\* __next__, the accumulated pairs are dropped, the generator is finished
LoadBatchError ==
    /\ Pulling /\ gpc = "raise"
    /\ gpc' = "done"
    /\ acc' = <<>>
    /\ bpc' = "idle"
    /\ last' = err
    /\ UNCHANGED <<dataset, cfg, obs, patch_size, strides, built,
                   fi, ngroups, gi, width, height, w, h,
                   patch_counter, patch_per_file, di, pair, err,
                   batch, batches, nStop, hist>>

Next ==
    \/ LoaderNextUnbuilt \/ LoaderIterUnbuilt \/ BatchLoaderInit
    \/ IterStart \/ IterFile \/ IterBreak \/ IterLoop
    \/ IterGroup \/ IterDrain \/ IterCol \/ IterGroupEnd
    \/ IterSkip \/ IterYield \/ IterRowEnd
    \/ RandomStart \/ RandomNoFile \/ RandomFile \/ RandomEnd
    \/ RandomGroup \/ RandomNextFile \/ RandomGroupEnd
    \/ RandomQuota \/ RandomRangeError \/ RandomYield
    \/ BatchNext \/ LoadBatchAppend \/ LoadBatchFull
    \/ LoadBatchPartial \/ LoadBatchEmpty \/ LoadBatchError

Spec == Init /\ [][Next]_vars

(***************************************************************************)
(* Loader.__len__ and BatchLoader.__len__.                                 *)
(***************************************************************************)
\* the term of one file scaled by the frame groups its handle has left
GridCount_Remaining(vf) ==
    LET sr == IF strides # None THEN strides ELSE vf.shape
        sz == IF patch_size # None THEN patch_size ELSE vf.shape
    IN  ((vf.shape[1] - sz[1]) \div sr[1] + 1)
          * ((vf.shape[2] - sz[2]) \div sr[2] + 1)
          * (vf.frames \div depth)

\* the term of one file: the raw shape, self.strides or [w, h],
\* self.patch_size or [w, h]
GridCount(vf) ==
    LET sr == IF strides # None THEN strides ELSE vf.shape
        sz == IF patch_size # None THEN patch_size ELSE vf.shape
    IN  ((vf.shape[1] - sz[1]) \div sr[1] + 1)
          * ((vf.shape[2] - sz[2]) \div sr[2] + 1)

RECURSIVE SumGrid(_)
SumGrid(files) ==
    IF files = <<>> THEN 0 ELSE GridCount(Head(files)) + SumGrid(Tail(files))

\* Loader.__len__
LoaderLen == IF random THEN max_patches ELSE SumGrid(dataset)

\* BatchLoader.__len__: int(np.ceil(len(self.loader) / self.batch))
BatchLoaderLen == -((-LoaderLen) \div batch)

\* a caller asks len(batch_loader) between two calls of __next__;
\* BatchLoader.__len__ calls Loader.__len__; lenSeen keeps both results
BatchLoaderLenCall ==
    /\ built /\ bpc = "idle"
    /\ lenSeen' = <<LoaderLen, BatchLoaderLen>>
    /\ UNCHANGED <<dataset, cfg, order, ret, patch_size, strides, built, gen,
                   batch, bpc, acc, batches, last, nStop, hist>>

\* iteration with length queries in between
NextLen == Next \/ BatchLoaderLenCall

SpecLen == Init /\ [][NextLen]_vars

(***************************************************************************)
(* Quantities the properties speak about.                                  *)
(***************************************************************************)
\* the generator has ended, by returning or by raising
Finished == gpc = "done" \/ gpc = "raise"

\* pairs in the batches emitted so far
RECURSIVE SumLen(_)
SumLen(ss) == IF ss = <<>> THEN 0 ELSE Len(Head(ss)) + SumLen(Tail(ss))

\* frame groups the files hold: floor(frames in the file / depth) each
RECURSIVE TotalGroups(_)
TotalGroups(files) ==
    IF files = <<>> THEN 0
    ELSE (Head(files).size \div depth) + TotalGroups(Tail(files))

\* the frame a pair was cut from, after shrinking to a multiple of the scale
FrameOf(p) == shrink_to_multiple_scale(dataset[p.file].shape, scale)

(***************************************************************************)
(* C1: in deterministic mode with loop disabled, one complete pass of      *)
(* _build_iter yields as many pairs as Loader.__len__ returns.             *)
(***************************************************************************)
C1_PassYieldsLen ==
    (built /\ ~random /\ ~loop /\ gpc = "done") => nYield = LoaderLen

C3_QuotaIsHardCap ==
    /\ [](random => (patch_counter <= max_patches /\ nYield = patch_counter))
    /\ [][(random /\ patch_counter = max_patches)
            => (nYield' = nYield /\ gpc' # "yield")]_vars

\* the quota is met in the middle of a frame group, with a file to come
C3_Witness ==
    /\ random /\ max_patches > 0
    /\ patch_counter = max_patches
    /\ Finished
    /\ 0 < di /\ di < patch_per_file
    /\ fi < Len(dataset)

(***************************************************************************)
(* C4: when a loop-disabled patch sequence has yielded n pairs in total    *)
(* and ended, BatchLoader has emitted floor(n / batch) batches of batch    *)
(* pairs and then, only if n mod batch > 0, one batch of n mod batch       *)
(* pairs; a call after that signals StopIteration; no batch is empty.      *)
(***************************************************************************)
C4_BatchesPartitionYield ==
    /\ \A i \in 1..Len(batches) : batches[i] # <<>>
    /\ (built /\ ~loop /\ gpc = "done" /\ bpc = "idle") =>
         LET k == nYield \div batch
             r == nYield % batch
         IN  /\ Len(batches) = k + (IF r > 0 THEN 1 ELSE 0)
             /\ \A i \in 1..Min(k, Len(batches)) : Len(batches[i]) = batch
             /\ (r > 0 /\ Len(batches) > k) => Len(batches[k + 1]) = r
             /\ nStop >= 1 => last = "StopIteration"

(***************************************************************************)
(* C5: with loop disabled, in both modes, the number of batches            *)
(* BatchLoader has emitted when it signals exhaustion equals               *)
(* BatchLoader.__len__() = ceil(Loader.__len__() / batch).  Stated on the   *)
(* runs in which the generator raises no error.                            *)
(***************************************************************************)
C5_BatchCountIsLen ==
    (built /\ ~loop /\ nStop >= 1 /\ err \in {"none", "StopIteration"}) =>
        Len(batches) = BatchLoaderLen

(***************************************************************************)
(* C6: each of the four coordinates of every emitted high-res crop box is  *)
(* divisible by the scale of its axis, so that the low-res box times the   *)
(* scale is the high-res box.                                              *)
(***************************************************************************)
C6_BoxDivisibleByScale ==
    pair # NoPair =>
        \A i \in 1..4 :
            LET sc == IF i \in {1, 3} THEN scale[1] ELSE scale[2]
            IN  /\ pair.box[i] % sc = 0
                /\ pair.box_lr[i] * sc = pair.box[i]

(***************************************************************************)
(* C7: every emitted crop box lies inside the scale-shrunk frame it is cut *)
(* from (0 <= left, 0 <= top, right <= W, bottom <= H), and a grid cell    *)
(* that passes the right or bottom edge is left without a yield and        *)
(* without an error.                                                       *)
(***************************************************************************)
C7_BoxInsideFrame ==
    /\ [](pair # NoPair =>
            /\ 0 <= pair.box[1] /\ 0 <= pair.box[2]
            /\ pair.box[3] <= FrameOf(pair)[1]
            /\ pair.box[4] <= FrameOf(pair)[2])
    /\ [][(/\ ~random /\ gpc = "row" /\ h < height
           /\ \/ w + PatchSize[1] > FrameOf([file |-> fi])[1]
              \/ h + PatchSize[2] > FrameOf([file |-> fi])[2])
            => (nYield' = nYield /\ gpc' \notin {"yield", "raise"})]_vars

\* the grid stands on a cell past the edge after it has yielded a crop
C7_Witness ==
    /\ ~random /\ gpc = "row" /\ h < height
    /\ PastEdge(w, h)
    /\ nYield > 0

(***************************************************************************)
(* C8: in deterministic mode with loop disabled the generator ends after   *)
(* exactly one pass that visits every file exactly once; with loop enabled *)
(* it never ends, BatchLoader never signals exhaustion, and a completed    *)
(* pass is followed by a new traversal from the first file.                *)
(***************************************************************************)
C8_OnePassOrForever ==
    /\ []((built /\ ~random) =>
            /\ ~loop => /\ passes <= 1
                        /\ gpc = "done" =>
                             /\ passes = 1
                             /\ \A i \in 1..Len(dataset) : visits[i] = 1
            /\ loop => (gpc # "done" /\ nStop = 0))
    /\ [][(~random /\ loop /\ Pulling /\ gpc = "file" /\ fi > Len(dataset))
            => (gpc' = "file" /\ fi' = 1)]_vars

\* a non-looping pass over two files has ended and exhaustion was signalled
C8_Witness ==
    /\ ~random /\ ~loop /\ gpc = "done"
    /\ Len(dataset) = 2
    /\ nYield > 0
    /\ last = "StopIteration"

(***************************************************************************)
(* C9: in random mode, reaching the max_patches quota ends the generator   *)
(* through the ordinary end of iteration and never as an error, and the    *)
(* pairs _load_batch had accumulated are still emitted.                    *)
(***************************************************************************)
C9_QuotaEndsNormally ==
    (random /\ err \in {"StopIteration", "RuntimeError"}) =>
        /\ err = "StopIteration"
        /\ bpc = "idle" => SumLen(batches) = nYield

(***************************************************************************)
(* C10: iterating a Loader that has not been built ends in an error,       *)
(* yields no pair, and leaves the loader as it was: built false,           *)
(* batch_iterator unset, no frame read from any file.                      *)
(***************************************************************************)
C10_UnbuiltIterationFails ==
    /\ [](~built =>
            /\ gpc = "none" /\ nYield = 0 /\ pair = NoPair
            /\ \A i \in 1..Len(dataset) : dataset[i].frames = dataset[i].size)
    /\ [][(~built /\ ~built')
            => (last' \in {"RuntimeError", "TypeError"} /\ dataset' = dataset)]_vars

\* an unbuilt loader after next() has raised
C10_Witness == ~built /\ gpc = "none" /\ last = "RuntimeError"

(***************************************************************************)
(* C11: a length query (BatchLoader.__len__, which calls Loader.__len__)   *)
(* changes nothing but the value it returns, and the value a query has     *)
(* returned is the value a query returns in every later state: before,     *)
(* during and after iteration.                                             *)
(***************************************************************************)
C11_LenIsPureAndStable ==
    /\ [](lenSeen # <<>> => lenSeen = <<LoaderLen, BatchLoaderLen>>)
    /\ [][lenSeen' # lenSeen =>
            UNCHANGED <<dataset, cfg, order, ret, patch_size, strides, built, gen,
                        batch, bpc, acc, batches, last, nStop, hist>>]_vars

\* a length was taken and the deterministic pass has since drained a file
\* and ended
C11_Witness ==
    /\ lenSeen # <<>>
    /\ ~random /\ gpc = "done" /\ nYield > 0
    /\ last = "StopIteration"

(***************************************************************************)
(* C12: for one single-frame file of raw width W and height H with         *)
(* depth 1, a normalized patch (pw, ph) with pw <= W and ph <= H and a     *)
(* normalized stride (sw, sh), one deterministic pass yields               *)
(* ((W - pw) // sw + 1) * ((H - ph) // sh + 1) pairs, also when the        *)
(* shrunk frame is smaller than the raw shape.                             *)
(***************************************************************************)
C12_GridCountLaw ==
    (/\ built /\ ~random /\ ~loop /\ gpc = "done"
     /\ Len(dataset) = 1 /\ depth = 1
     /\ patch_size # None) =>
        LET vf == dataset[1]
        IN  (/\ vf.size = 1
             /\ patch_size[1] <= vf.shape[1]
             /\ patch_size[2] <= vf.shape[2]) =>
                nYield = ((vf.shape[1] - patch_size[1]) \div strides[1] + 1)
                           * ((vf.shape[2] - patch_size[2]) \div strides[2] + 1)

\* such a pass has ended on a file whose raw width is no multiple of the
\* scale, so that the grid was laid on the shrunk frame
C12_Witness ==
    /\ built /\ ~random /\ ~loop /\ gpc = "done"
    /\ Len(dataset) = 1 /\ depth = 1 /\ patch_size # None
    /\ dataset[1].size = 1
    /\ patch_size[1] <= dataset[1].shape[1]
    /\ patch_size[2] <= dataset[1].shape[2]
    /\ dataset[1].shape[1] % scale[1] # 0
    /\ width < dataset[1].shape[1]
    /\ nYield >= 1

(***************************************************************************)
(* Loaders of every method name dataset.__getattr__(method.lower())       *)
(* accepts, on one frame shape and one scale.                              *)
(***************************************************************************)
InitMode == InitOf(Methods, {<<2, 2>>}, {<<1, 1>>})

SpecMode == InitMode /\ [][Next]_vars

(***************************************************************************)
(* C13: at every moment of a loader's life, the extraction mode is        *)
(* deterministic for the test method, however the method name is           *)
(* capitalised, and whenever the randomization flag of the dataset is off. *)
(***************************************************************************)
C13_TestMethodIsDeterministic ==
    (lower(method) = "test" \/ ~dataset_random) => ~random

(***************************************************************************)
(* C14: every emitted pair, in either mode, has a high-res box of exactly  *)
(* the patch width and height, and a low-res box of exactly                *)
(* patch_w / scale_x by patch_h / scale_y, the divisions being exact.      *)
(***************************************************************************)
C14_BoxSizes ==
    pair # NoPair =>
        /\ pair.box[3] - pair.box[1] = PatchSize[1]
        /\ pair.box[4] - pair.box[2] = PatchSize[2]
        /\ PatchSize[1] % scale[1] = 0
        /\ PatchSize[2] % scale[2] = 0
        /\ pair.box_lr[3] - pair.box_lr[1] = PatchSize[1] \div scale[1]
        /\ pair.box_lr[4] - pair.box_lr[2] = PatchSize[2] \div scale[2]

\* a random pair whose left edge is no multiple of an uneven scale
C14_Witness ==
    /\ pair # NoPair /\ random
    /\ scale[1] # scale[2]
    /\ pair.box[1] % scale[1] # 0

(***************************************************************************)
(* Frame groups of the file the generator is in.                           *)
(***************************************************************************)
\* the generator is inside the loop over the frame groups of file fi
InFile ==
    /\ built /\ fi \in 1..Len(dataset)
    /\ gpc \in {"group", "col", "row", "draw", "yield", "suspended"}

\* frame groups read from file fi since it was entered
GroupsRead == gi + (IF gpc = "group" THEN 0 ELSE 1)

\* frames file fi had left to read when it was entered
FramesAtEntry == dataset[fi].frames + depth * GroupsRead

(***************************************************************************)
(* C15: in both modes a file with F readable frames gives floor(F / depth) *)
(* frame groups of depth frames each; a file with fewer frames than depth  *)
(* gives no group and no pair and raises nothing; in deterministic mode a  *)
(* file is left with zero frames remaining before the next file starts.    *)
(***************************************************************************)
C15_GroupsPerFile ==
    /\ [](InFile =>
            /\ ngroups = FramesAtEntry \div depth
            /\ GroupsRead <= ngroups
            /\ dataset[fi].frames >= 0
            /\ visits[fi] = 1 => FramesAtEntry = dataset[fi].size)
    /\ [](pair # NoPair => dataset[pair.file].size >= depth)
    /\ []((built /\ Len(dataset) > 0
             /\ \A i \in 1..Len(dataset) : dataset[i].size < depth) =>
                err = "none" /\ nYield = 0)
    /\ []((built /\ ~random /\ gpc = "file") =>
            \A i \in 1..Len(dataset) : i < fi => dataset[i].frames = 0)
    /\ [][(InFile /\ gpc = "group" /\ gpc' = "file") =>
            (gi = ngroups /\ fi' = fi + 1 /\ (~random => dataset'[fi].frames = 0))]_vars

\* a deterministic pass has left a first file of one frame, too short for a
\* group of two, drained and is about to start the second file
C15_Witness ==
    /\ built /\ ~random /\ gpc = "file" /\ fi = 2 /\ Len(dataset) = 2
    /\ depth = 2 /\ dataset[1].size = 1 /\ dataset[1].frames = 0
    /\ dataset[2].frames = 2
    /\ nYield = 0 /\ err = "none"

(***************************************************************************)
(* The order of emission of the deterministic generator: order lists, for  *)
(* every pair yielded, its file, its frame group and its grid origin.      *)
(***************************************************************************)
\* a comes before b: earlier file, then earlier frame group, then smaller
\* left, then smaller top
Before(a, b) ==
    \/ a[1] < b[1]
    \/ a[1] = b[1] /\ a[2] < b[2]
    \/ a[1] = b[1] /\ a[2] = b[2] /\ a[3] < b[3]
    \/ a[1] = b[1] /\ a[2] = b[2] /\ a[3] = b[3] /\ a[4] < b[4]

\* the i-th pair opens a frame group
OpensGroup(i) ==
    \/ i = 1
    \/ order[i - 1][1] # order[i][1]
    \/ order[i - 1][2] # order[i][2]

(***************************************************************************)
(* C16: the deterministic generator emits file by file in dataset order,   *)
(* frame group by frame group in read order, and inside a group from the   *)
(* origin (0,0) with left non-decreasing and, for equal left, top strictly *)
(* increasing; every origin is a multiple of the stride on its axis and no *)
(* origin is emitted twice.                                                *)
(***************************************************************************)
C16_EmissionOrder ==
    ~random =>
        /\ Len(order) = nYield
        /\ \A i \in 1..Len(order) :
              /\ i > 1 => Before(order[i - 1], order[i])
              /\ OpensGroup(i) => order[i][3] = 0 /\ order[i][4] = 0
              /\ order[i][3] % Strides[1] = 0
              /\ order[i][4] % Strides[2] = 0
        /\ \A i, j \in 1..Len(order) : order[i] = order[j] => i = j

\* a pass over two files that has emitted two columns of two rows from the
\* first file and has started on the second
C16_Witness ==
    /\ ~random /\ Len(order) >= 5
    /\ order[1] = <<1, 0, 0, 0>>
    /\ order[2][3] = 0 /\ order[2][4] > 0
    /\ \E i \in 1..Len(order) : order[i][1] = 1 /\ order[i][3] > 0
    /\ order[Len(order)][1] = 2

(***************************************************************************)
(* C17: in random mode with a patch larger than the frame on an axis, the  *)
(* first draw of a frame group fails with an error, no pair is ever        *)
(* yielded (so none with a box outside the frame), and the error leaves    *)
(* BatchLoader.__next__ unchanged.                                         *)
(***************************************************************************)
\* the patch of the built loader exceeds the shrunk frame on an axis
PatchExceedsFrame ==
    /\ built /\ patch_size # None /\ Len(dataset) > 0
    /\ LET size == shrink_to_multiple_scale(dataset[1].shape, scale)
       IN  patch_size[1] > size[1] \/ patch_size[2] > size[2]

C17_OversizedPatchFails ==
    /\ []((random /\ PatchExceedsFrame) =>
            /\ nYield = 0 /\ pair = NoPair /\ batches = <<>>
            /\ gpc = "draw" => di = 0
            /\ err \in {"none", "ValueError"}
            /\ last \in {"none", "ValueError", "StopIteration"}
            /\ last = "StopIteration" => gpc = "done")
    /\ [][(random /\ PatchExceedsFrame /\ gpc = "draw" /\ max_patches > 0) =>
            (gpc' = "raise" /\ err' = "ValueError")]_vars
    /\ [][(random /\ PatchExceedsFrame /\ gpc = "raise") =>
            (last' = "ValueError" /\ bpc' = "idle")]_vars

\* BatchLoader.__next__ has raised the ValueError of the first draw
C17_Witness ==
    /\ random /\ PatchExceedsFrame
    /\ last = "ValueError" /\ err = "ValueError"
    /\ nYield = 0 /\ di = 0 /\ bpc = "idle"

(***************************************************************************)
(* Progress.  The steps of the generators and of _load_batch are taken by  *)
(* the interpreter as long as one is possible; calling the constructor or  *)
(* __next__ is up to the caller.                                           *)
(***************************************************************************)
Run ==
    \/ IterStart \/ IterFile \/ IterBreak \/ IterLoop
    \/ IterGroup \/ IterDrain \/ IterCol \/ IterGroupEnd
    \/ IterSkip \/ IterYield \/ IterRowEnd
    \/ RandomStart \/ RandomNoFile \/ RandomFile \/ RandomEnd
    \/ RandomGroup \/ RandomNextFile \/ RandomGroupEnd
    \/ RandomQuota \/ RandomRangeError \/ RandomYield
    \/ LoadBatchAppend \/ LoadBatchFull
    \/ LoadBatchPartial \/ LoadBatchEmpty \/ LoadBatchError

SpecLive == Init /\ [][Next]_vars /\ WF_vars(Run)

(***************************************************************************)
(* C18: every request for the next batch eventually completes, with a      *)
(* batch, with exhaustion or with an error, also on a loader whose files   *)
(* all hold fewer frames than depth, so that a whole pass yields nothing.  *)
(***************************************************************************)
C18_RequestCompletes ==
    (/\ bpc = "loading" /\ Len(dataset) > 0
     /\ \A i \in 1..Len(dataset) : dataset[i].size < depth) ~> (bpc = "idle")

(***************************************************************************)
(* The pairs BatchLoader has handed out.                                   *)
(***************************************************************************)
\* the batches emitted so far, concatenated
RECURSIVE Flatten(_)
Flatten(ss) == IF ss = <<>> THEN <<>> ELSE Head(ss) \o Flatten(Tail(ss))

(***************************************************************************)
(* C19: whenever BatchLoader is at rest between two requests, the batches  *)
(* it has emitted, concatenated, are exactly the pairs the generator has   *)
(* yielded, each once and in the order of yielding.                        *)
(***************************************************************************)
C19_BatchesKeepEveryPair ==
    (built /\ bpc = "idle") => Flatten(batches) = [i \in 1..nYield |-> i]

(***************************************************************************)
(* Loader.__next__ on a built loader that is used without a BatchLoader:   *)
(* build_loader called by the user, then next(loader).  ret is the value   *)
(* the last call returned, NoPair standing for None.                       *)
(***************************************************************************)
\* loader.build_loader(crop=...)
LoaderBuild ==
    /\ ~built
    /\ \E crop \in BOOLEAN : build_loader(crop)
    /\ UNCHANGED <<dataset, length, depth, loop, random, max_patches,
                   method, dataset_random, obs,
                   fi, ngroups, gi, width, height, w, h,
                   patch_counter, patch_per_file, di, pair, err,
                   batch, bpc, acc, batches, last, nStop, hist>>

\* __next__ passes its guard and calls next(self.batch_iterator)
LoaderNext ==
    /\ built /\ batch = 0 /\ bpc = "idle"
    /\ bpc' = "loading"
    /\ pair' = NoPair
    /\ IF gpc = "suspended" THEN Resume ELSE UNCHANGED <<gpc, di, h>>
    /\ UNCHANGED <<dataset, cfg, obs, patch_size, strides, built,
                   fi, ngroups, gi, width, height, w,
                   patch_counter, patch_per_file, err,
                   batch, acc, batches, last, nStop, hist>>

\* the generator has yielded: next(self.batch_iterator) evaluates to the
\* pair, line 53 is an expression statement and __next__ falls off its end
LoaderNextReturn ==
    /\ Pulling /\ batch = 0 /\ gpc = "yield"
    /\ gpc' = "suspended"
    /\ bpc' = "idle"
    /\ ret' = NoPair
    /\ last' = "returned"
    /\ UNCHANGED <<dataset, cfg, lenSeen, order, patch_size, strides, built,
                   fi, ngroups, gi, width, height, w, h,
                   patch_counter, patch_per_file, di, pair, err,
                   batch, acc, batches, nStop, hist>>

\* the generator has returned: StopIteration leaves __next__
LoaderNextStop ==
    /\ Pulling /\ batch = 0 /\ gpc = "done"
    /\ bpc' = "idle"
    /\ last' = "StopIteration"
    /\ nStop' = Min(nStop + 1, MaxStops)
    /\ UNCHANGED <<dataset, cfg, obs, patch_size, strides, built, gen,
                   batch, acc, batches, hist>>

\* an exception leaves the generator and __next__
LoaderNextError ==
    /\ Pulling /\ batch = 0 /\ gpc = "raise"
    /\ gpc' = "done"
    /\ bpc' = "idle"
    /\ last' = err
    /\ UNCHANGED <<dataset, cfg, obs, patch_size, strides, built,
                   fi, ngroups, gi, width, height, w, h,
                   patch_counter, patch_per_file, di, pair, err,
                   batch, acc, batches, nStop, hist>>

NextLoader ==
    \/ LoaderNextUnbuilt \/ LoaderIterUnbuilt \/ LoaderBuild
    \/ IterStart \/ IterFile \/ IterBreak \/ IterLoop
    \/ IterGroup \/ IterDrain \/ IterCol \/ IterGroupEnd
    \/ IterSkip \/ IterYield \/ IterRowEnd
    \/ RandomStart \/ RandomNoFile \/ RandomFile \/ RandomEnd
    \/ RandomGroup \/ RandomNextFile \/ RandomGroupEnd
    \/ RandomQuota \/ RandomRangeError \/ RandomYield
    \/ LoaderNext \/ LoaderNextReturn \/ LoaderNextStop \/ LoaderNextError

SpecLoader == Init /\ [][NextLoader]_vars

(***************************************************************************)
(* C20: when Loader.__next__ on a built loader has advanced the generator  *)
(* by one element, the value it returned is the pair the generator         *)
(* yielded at that position.                                               *)
(***************************************************************************)
C20_NextReturnsPair ==
    (built /\ batch = 0 /\ bpc = "idle" /\ gpc = "suspended") =>
        (pair # NoPair /\ ret = pair)

====
